---- MODULE Spec2Model ----
(***************************************************************************)
(* Model of landmark_shard_descriptor.py: the partition view               *)
(* (LandmarkShardDataset) and the dataset manager (LandmarkShardDescriptor)*)
(* with its md5 manifest cache.                                            *)
(*                                                                         *)
(* Text (str, Path) is a sequence of one-character strings, so that        *)
(* str.replace, Path "/" and the file-name building of the source are      *)
(* computed character by character.                                        *)
(***************************************************************************)
EXTENDS Integers, Sequences, FiniteSets, TLC

\* ------------------------------------------------------------------ bounds
\* most sample files a directory listing holds (partition-view model)
MaxN == 4
\* largest world-size (partition-view model)
MaxW == 3
\* rows of training.csv in the published archive
NRows == 1
\* changes made to the data folder from outside the program
MaxExt == 2

\* ------------------------------------------------------------------ text
IMG == <<"i", "m", "g">>
KEYPOINTS == <<"k", "e", "y", "p", "o", "i", "n", "t", "s">>
NPY == <<".", "n", "p", "y">>
SEP == <<"/">>

Digit(d) == <<"0", "1", "2", "3", "4", "5", "6", "7", "8", "9">>[d + 1]

\* str(i) of a non-negative int
RECURSIVE Str(_)
Str(i) == IF i < 10 THEN <<Digit(i)>> ELSE Str(i \div 10) \o <<Digit(i % 10)>>

\* 'img_' + str(i) + '.npy'
ImgName(i) == IMG \o <<"_">> \o Str(i) \o NPY

\* 'keypoints_' + str(i) + '.npy'
KpName(i) == KEYPOINTS \o <<"_">> \o Str(i) \o NPY

StartsWith(s, p) == Len(s) >= Len(p) /\ SubSeq(s, 1, Len(p)) = p

EndsWith(s, p) == Len(s) >= Len(p) /\ SubSeq(s, Len(s) - Len(p) + 1, Len(s)) = p

\* fnmatch of a file name against the pattern 'img_*.npy'
MatchesImgPattern(name) ==
    /\ Len(name) >= Len(IMG) + 1 + Len(NPY)
    /\ StartsWith(name, IMG \o <<"_">>)
    /\ EndsWith(name, NPY)

\* str.replace(old, new): every non-overlapping occurrence, left to right
RECURSIVE Replace(_, _, _)
Replace(s, old, new) ==
    IF Len(s) < Len(old) THEN s
    ELSE IF SubSeq(s, 1, Len(old)) = old
         THEN new \o Replace(SubSeq(s, Len(old) + 1, Len(s)), old, new)
         ELSE <<Head(s)>> \o Replace(Tail(s), old, new)

IsAbsolute(p) == Len(p) > 0 /\ Head(p) = "/"

\* pathlib's  dir / p : an absolute right operand replaces the left one,
\* and Path('.') / p is p
PathJoin(dir, p) ==
    IF IsAbsolute(p) THEN p
    ELSE IF dir = <<".">> THEN p
    ELSE dir \o SEP \o p

\* ------------------------------------------------------- LandmarkShardDataset
\* list(dataset_dir.glob('img_*.npy')): the matching entries of the directory,
\* in listing order, each as dataset_dir / name
RECURSIVE Glob(_, _)
Glob(dir, names) ==
    IF names = <<>> THEN <<>>
    ELSE IF MatchesImgPattern(Head(names))
         THEN <<PathJoin(dir, Head(names))>> \o Glob(dir, Tail(names))
         ELSE Glob(dir, Tail(names))

\* lst[start::step] for 0 <= start, 1 <= step
RECURSIVE Slice(_, _, _)
Slice(lst, start, step) ==
    IF start >= Len(lst) THEN <<>>
    ELSE <<lst[start + 1]>> \o Slice(lst, start + step, step)

\* a bug a sharding slice can have: the rank used as the 0-based offset
ShardOffByOne(lst, rank, worldsize) == Slice(lst, rank, worldsize)

\* a bug a sharding slice can have: a stride one too long
ShardLongStride(lst, rank, worldsize) == Slice(lst, rank - 1, worldsize + 1)

\* self.img_names[self.rank - 1::self.worldsize]
Shard(lst, rank, worldsize) == Slice(lst, rank - 1, worldsize)

\* lst without its i-th element
Without(lst, i) == SubSeq(lst, 1, i - 1) \o SubSeq(lst, i + 1, Len(lst))

\* the orders random.shuffle can leave a list in: every permutation
RECURSIVE Shuffles(_)
Shuffles(lst) ==
    IF lst = <<>> THEN {<<>>}
    ELSE UNION {{<<lst[i]>> \o rest : rest \in Shuffles(Without(lst, i))} :
                   i \in 1..Len(lst)}

\* the img_names a new LandmarkShardDataset can hold
NewDataset(dir, names, rank, worldsize) ==
    Shuffles(Shard(Glob(dir, names), rank, worldsize))

\* the file __getitem__ loads the target from
KpPath(dir, imgPath) == PathJoin(dir, Replace(imgPath, IMG, KEYPOINTS))

\* ---------------------------------------------------- partition-view model
\* State of the model of LandmarkShardDataset alone: one directory, its
\* listing, one world-size, and the view built for each rank.
VARIABLES dataset_dir, listing, world, shards, result

shardVars == <<dataset_dir, listing, world, shards, result>>

\* State of the model of LandmarkShardDescriptor over one data folder.
\*   data_folder    the configured folder name (self.data_folder is CWD / it)
\*   rank, worldsize  parsed from rank_worldsize by __init__
\*   exists         whether the data folder exists
\*   folder         content of every file under the data folder but dataset.json
\*   manifest       dataset.json: absent, cut short by an interrupted write, or
\*                  a JSON object (a set of <<key, digest>> members)
\*   pc, conv       where the constructing process is; np.save calls done
\*   handed         the views get_dataset has returned to the caller, by argument
\*   err            the exception that ended the last construction
\* and, recorded for the properties only:
\*   saved          folder as it was when save_all_md5 last wrote the manifest
\*   crashed        the step at which the last refresh was interrupted
\*   clean          download_data has returned and nothing outside changed since
\*   cleanAtStart   clean, as it was when this invocation began
\*   fetched        this invocation called the data-hosting client
\*   steps          the refresh steps this invocation has done, in order
\*   probed         dimensionality of the target __init__ probed
\*   ext            external changes so far
VARIABLES data_folder, rank, worldsize, exists, folder, manifest, pc, conv,
          handed, err, saved, crashed, clean, cleanAtStart, fetched, steps,
          probed, ext

descVars == <<data_folder, rank, worldsize, exists, folder, manifest, pc, conv,
              handed, err, saved, crashed, clean, cleanAtStart, fetched, steps,
              probed, ext>>

vars == <<shardVars, descVars>>

\* directories a view is built over: absolute, absolute with the sample-kind
\* token in a directory name, relative, and the current directory
Dirs ==
    { <<"/", "w", "/", "d">>,
      <<"/", "i", "m", "g", "s", "/", "d">>,
      <<"d">>,
      <<".">> }

\* a directory listing: for each sample index, in any order, its image file
\* and its keypoints file
RECURSIVE Entries(_)
Entries(order) ==
    IF order = <<>> THEN <<>>
    ELSE <<ImgName(Head(order)), KpName(Head(order))>> \o Entries(Tail(order))

\* the listing orders of n sample files, n up to MaxN: a directory lists its
\* files in an order of its own, here the index order rotated by k
Orders ==
    {[i \in 1..n |-> (i - 1 + k) % n] : n \in 1..MaxN, k \in 0..(MaxN - 1)}
        \cup {<<>>}

NoShard == [built |-> FALSE, img_names |-> <<>>]

NoResult == [op |-> "none", rank |-> 0, len |-> 0, img |-> <<>>, kp |-> <<>>]

ShardInit ==
    /\ dataset_dir \in Dirs
    /\ world \in 1..MaxW
    /\ listing \in {Entries(o) : o \in Orders}
    /\ shards = [r \in 1..world |-> NoShard]
    /\ result = NoResult

\* LandmarkShardDataset(dataset_dir, rank=r, worldsize=world)
DatasetInit(r) ==
    /\ ~shards[r].built
    /\ \E names \in NewDataset(dataset_dir, listing, r, world) :
          shards' = [shards EXCEPT ![r] = [built |-> TRUE, img_names |-> names]]
    /\ UNCHANGED <<descVars, dataset_dir, listing, world, result>>

\* view[index] for a valid index of the view of rank r
DatasetGetItem(r, index) ==
    /\ shards[r].built
    /\ index \in 0..(Len(shards[r].img_names) - 1)
    /\ result' = [op |-> "getitem", rank |-> r, len |-> 0,
                  img |-> shards[r].img_names[index + 1],
                  kp |-> KpPath(dataset_dir, shards[r].img_names[index + 1])]
    /\ UNCHANGED <<descVars, dataset_dir, listing, world, shards>>

\* len(view) for the view of rank r
DatasetLen(r) ==
    /\ shards[r].built
    /\ result' = [op |-> "len", rank |-> r, len |-> Len(shards[r].img_names),
                  img |-> <<>>, kp |-> <<>>]
    /\ UNCHANGED <<descVars, dataset_dir, listing, world, shards>>

ShardNext ==
    \/ \E r \in 1..world : DatasetInit(r)
    \/ \E r \in 1..world : \E index \in 0..(MaxN - 1) : DatasetGetItem(r, index)
    \/ \E r \in 1..world : DatasetLen(r)

\* ------------------------------------------------ partition-view properties
Range(f) == {f[i] : i \in DOMAIN f}

\* the sample files the directory enumerates, in listing order
Enumerated == Glob(dataset_dir, listing)

AllBuilt == \A r \in 1..world : shards[r].built

\* C1: for any enumerated list of N sample files and any world-size W >= 1,
\* the partitions built for ranks 1..W (ignoring the shuffled order) are
\* pairwise disjoint and their union is the full list: every sample belongs
\* to exactly one rank, with no overlaps and no omissions.
C1_PartitionsCoverExactlyOnce ==
    /\ \A r, s \in 1..world :
          (r # s /\ shards[r].built /\ shards[s].built)
             => Range(shards[r].img_names) \cap Range(shards[s].img_names) = {}
    /\ \A r \in 1..world :
          shards[r].built
             => /\ Range(shards[r].img_names) \subseteq Range(Enumerated)
                /\ Cardinality(Range(shards[r].img_names)) = Len(shards[r].img_names)
    /\ AllBuilt
          => \A f \in Range(Enumerated) :
                Cardinality({r \in 1..world : f \in Range(shards[r].img_names)}) = 1

\* C1 witness: three ranks over four sample files, every rank's view built
C1_Witness ==
    /\ world = 3
    /\ Len(Enumerated) = 4
    /\ AllBuilt

\* the 0-based positions r-1, r-1+W, r-1+2W, ... below N
StridePositions(r, w, n) == {p \in 0..(n - 1) : p >= r - 1 /\ (p - (r - 1)) % w = 0}

\* ceil((N-(r-1))/W) when r-1 < N, and 0 otherwise
StrideCount(r, w, n) == IF r - 1 < n THEN (n - (r - 1) + w - 1) \div w ELSE 0

\* C2: the partition of rank r holds exactly the elements at 0-based positions
\* r-1, r-1+W, r-1+2W, ... below N, and __len__ returns their count,
\* ceil((N-(r-1))/W) when r-1 < N and 0 otherwise; the shuffle changes only
\* the order.
C2_StridePositionsAndLen ==
    /\ \A r \in 1..world :
          shards[r].built
             => /\ Range(shards[r].img_names) =
                      {Enumerated[p + 1] : p \in StridePositions(r, world, Len(Enumerated))}
                /\ Len(shards[r].img_names) =
                      Cardinality(StridePositions(r, world, Len(Enumerated)))
    /\ result.op = "len"
          => result.len = StrideCount(result.rank, world, Len(Enumerated))

\* C2 witness: N = 4, W = 3, rank 1 asked for its length (positions 0 and 3)
C2_Witness ==
    /\ result.op = "len"
    /\ result.rank = 1
    /\ world = 3
    /\ Len(Enumerated) = 4
    /\ result.len = 2

\* C9 (as claimed): __getitem__(i) loads the target from keypoints_<k>.npy in
\* the same dataset directory as the i-th retained file img_<k>.npy, whatever
\* the directory path is.
C9_TargetBesideSample ==
    result.op = "getitem"
       => \E k \in 0..(MaxN - 1) :
             /\ result.img = PathJoin(dataset_dir, ImgName(k))
             /\ result.kp = PathJoin(dataset_dir, KpName(k))

\* ------------------------------------------------------ the data folder
DOT == <<".">>
TRAIN == <<"t", "r", "a", "i", "n">>
DATA == <<"d", "a", "t", "a">>
IMGS == <<"i", "m", "g", "s">>
CWD == <<"/", "w">>
TRAINING_ZIP == <<"t", "r", "a", "i", "n", "i", "n", "g", ".", "z", "i", "p">>
TRAINING_CSV == <<"t", "r", "a", "i", "n", "i", "n", "g", ".", "c", "s", "v">>
DATASET_JSON == <<"d", "a", "t", "a", "s", "e", "t", ".", "j", "s", "o", "n">>

\* A file under the data folder is <<directory relative to the folder, name>>.
ZipFile == <<DOT, TRAINING_ZIP>>
CsvFile == <<DOT, TRAINING_CSV>>
TrainFile == <<TRAIN, <<"x">>>>
ManifestFile == <<DOT, DATASET_JSON>>
ImgFile(i) == <<DOT, ImgName(i)>>
KpFile(i) == <<DOT, KpName(i)>>

\* sample indices: the rows of the archive and one index beyond them
Indices == 0..NRows

SampleFiles == {ImgFile(i) : i \in Indices} \cup {KpFile(i) : i \in Indices}

\* every file of the folder but dataset.json
Files == SampleFiles \cup {ZipFile, CsvFile, TrainFile}

\* A file's content is "absent" (no such file), "good" (what the archive, its
\* extraction and process_data write: a keypoints file then holds a
\* 1-dimensional array) or "other" (any other bytes: a keypoints file then
\* holds a 2-dimensional array).
EmptyFolder == [f \in Files |-> "absent"]

\* len(target.shape) of the array a keypoints file holds
Ndim(content) == IF content = "good" THEN 1 ELSE 2

\* md5(...).hexdigest() of a file's bytes; distinct contents of the model have
\* distinct digests
Md5(content) == <<"md5", content>>

\* the files os.walk(self.data_folder) yields: dataset.json is one of them
\* once it exists
Walk(fld, mf) ==
    {f \in Files : fld[f] # "absent"}
        \cup (IF mf.state = "absent" THEN {} ELSE {ManifestFile})

\* the bytes of a walked file
ContentOf(fld, mf, f) == IF f = ManifestFile THEN <<"json", mf.state>> ELSE fld[f]

\* os.path.join(os.path.relpath(root, self.data_folder), file)
RelFile(f) == f[1] \o SEP \o f[2]

\* a bug calc_all_md5 can have: dataset.json is not skipped
CalcAllMd5NoSkip(fld, mf) ==
    [k \in {RelFile(f) : f \in Walk(fld, mf)} |->
        Md5(ContentOf(fld, mf, CHOOSE f \in Walk(fld, mf) : RelFile(f) = k))]

\* a bug calc_all_md5 can have: the digest is taken of the name, not the bytes
CalcAllMd5OfNames(fld, mf) ==
    [k \in {RelFile(f) : f \in Walk(fld, mf) \ {g \in Walk(fld, mf) : g[2] = DATASET_JSON}} |->
        Md5(k)]

\* a bug calc_all_md5 can have: only .npy files are hashed
CalcAllMd5NpyOnly(fld, mf) ==
    [k \in {RelFile(f) : f \in {g \in Walk(fld, mf) : EndsWith(g[2], NPY)}} |->
        Md5(ContentOf(fld, mf, CHOOSE f \in Walk(fld, mf) : RelFile(f) = k))]

\* calc_all_md5: relative path -> digest, for every walked file not named
\* dataset.json
CalcAllMd5(fld, mf) ==
    [k \in {RelFile(f) : f \in {g \in Walk(fld, mf) : g[2] # DATASET_JSON}} |->
        Md5(ContentOf(fld, mf, CHOOSE f \in Walk(fld, mf) : RelFile(f) = k))]

\* json.dump of a dict of strings: the members of the JSON object
JsonDump(dict) == {<<k, dict[k]>> : k \in DOMAIN dict}

\* json.load of a JSON object
JsonLoad(members) ==
    [k \in {m[1] : m \in members} |-> (CHOOSE m \in members : m[1] = k)[2]]

NoManifest == [state |-> "absent", members |-> {}]

\* dataset.json as save_all_md5 leaves it
SaveAllMd5(fld, mf) == [state |-> "ok", members |-> JsonDump(CalcAllMd5(fld, mf))]

\* is_dataset_complete: "True", "False", or the exception json.load raises on
\* a manifest cut short (only FileNotFoundError is caught)
IsDatasetComplete(fld, mf) ==
    IF mf.state = "absent" THEN "False"
    ELSE IF mf.state = "partial" THEN "JSONDecodeError"
    ELSE IF CalcAllMd5(fld, mf) = JsonLoad(mf.members) THEN "True" ELSE "False"

\* ------------------------------------------------ LandmarkShardDescriptor
\* the rank_worldsize settings tried
RankWorldsizes == { <<"1", ",", " ", "1">>, <<"2", ",", "2">> }

\* str.split(sep) for a one-character sep
RECURSIVE Split(_, _)
Split(s, sep) ==
    IF \A i \in 1..Len(s) : s[i] # sep THEN <<s>>
    ELSE LET i == CHOOSE j \in 1..Len(s) : s[j] = sep /\ \A h \in 1..(j - 1) : s[h] # sep
         IN  <<SubSeq(s, 1, i - 1)>> \o Split(SubSeq(s, i + 1, Len(s)), sep)

DigitValue(c) == CHOOSE d \in 0..9 : Digit(d) = c

\* int(s): surrounding blanks are ignored
RECURSIVE ParseInt(_)
ParseInt(s) ==
    IF Head(s) = " " THEN ParseInt(Tail(s))
    ELSE IF s[Len(s)] = " " THEN ParseInt(SubSeq(s, 1, Len(s) - 1))
    ELSE IF Len(s) = 1 THEN DigitValue(s[1])
    ELSE 10 * ParseInt(SubSeq(s, 1, Len(s) - 1)) + DigitValue(s[Len(s)])

\* Path.cwd() / data_folder
AbsFolder == PathJoin(CWD, data_folder)

\* the names the data folder lists, in the directory's own order
TopOrder ==
    Entries([i \in 1..(NRows + 1) |-> i - 1]) \o <<TRAINING_ZIP, TRAINING_CSV>>

RECURSIVE Listed(_, _)
Listed(fld, names) ==
    IF names = <<>> THEN <<>>
    ELSE IF fld[<<DOT, Head(names)>>] # "absent"
         THEN <<Head(names)>> \o Listed(fld, Tail(names))
         ELSE Listed(fld, Tail(names))

\* the listing of directory dir: the data folder's, or nothing elsewhere
DirListing(dir) == IF dir = AbsFolder /\ exists THEN Listed(folder, TopOrder) ELSE <<>>

\* the content np.load finds at a path ("absent": FileNotFoundError)
Load(path) ==
    IF \E f \in Files : f[1] = DOT /\ PathJoin(AbsFolder, f[2]) = path
    THEN folder[CHOOSE f \in Files : f[1] = DOT /\ PathJoin(AbsFolder, f[2]) = path]
    ELSE "absent"

TRAIN_TYPE == <<"t", "r", "a", "i", "n">>
VAL_TYPE == <<"v", "a", "l">>
DatasetTypes == {TRAIN_TYPE, VAL_TYPE}

\* a bug get_dataset can have: a type other than the default 'train' picks a
\* sub-directory
GetDatasetArgsByType(dataset_type) ==
    [dataset_dir |-> IF dataset_type = TRAIN_TYPE THEN AbsFolder
                     ELSE PathJoin(AbsFolder, dataset_type),
     rank |-> rank, worldsize |-> worldsize]

\* the arguments get_dataset passes to LandmarkShardDataset
GetDatasetArgs(dataset_type) ==
    [dataset_dir |-> AbsFolder, rank |-> rank, worldsize |-> worldsize]

\* the views get_dataset(dataset_type) can return
GetDataset(dataset_type) ==
    LET a == GetDatasetArgs(dataset_type)
    IN  {[built |-> TRUE, dataset_dir |-> a.dataset_dir, rank |-> a.rank,
          worldsize |-> a.worldsize, img_names |-> names] :
            names \in NewDataset(a.dataset_dir, DirListing(a.dataset_dir),
                                 a.rank, a.worldsize)}

NoView == [built |-> FALSE, dataset_dir |-> <<>>, rank |-> 0, worldsize |-> 0,
           img_names |-> <<>>]

NoViews == [t \in DatasetTypes |-> NoView]

\* a bug the shape check can have: the assertion is not made
TargetShapeUnchecked(shape) == TRUE

\* assert self._target_shape == '1'
TargetShapeOk(shape) == shape = <<"1">>

\* a bug download_data can have: the manifest saved before the CSV is removed
StepAfterSaveEarly(step) ==
    CASE step = "auth" -> "fetch"
      [] step = "fetch" -> "extract"
      [] step = "extract" -> "rmzip"
      [] step = "rmzip" -> "convert"
      [] step = "convert" -> "save"
      [] step = "save" -> "rmcsv"
      [] step = "rmcsv" -> "probe"

\* the statement download_data runs after each of its refresh statements
StepAfter(step) ==
    CASE step = "auth" -> "fetch"
      [] step = "fetch" -> "extract"
      [] step = "extract" -> "rmzip"
      [] step = "rmzip" -> "convert"
      [] step = "convert" -> "rmcsv"
      [] step = "rmcsv" -> "save"
      [] step = "save" -> "probe"

DescInit ==
    /\ data_folder \in {DATA, IMGS}
    /\ rank = 0
    /\ worldsize = 0
    /\ exists = FALSE
    /\ folder = EmptyFolder
    /\ manifest = NoManifest
    /\ pc = "idle"
    /\ conv = 0
    /\ handed = NoViews
    /\ err = "none"
    /\ saved = EmptyFolder
    /\ crashed = "none"
    /\ clean = FALSE
    /\ cleanAtStart = FALSE
    /\ fetched = FALSE
    /\ steps = <<>>
    /\ probed = <<>>
    /\ ext = 0

\* what a process leaves behind when it ends: nothing but the folder
ProcessGone ==
    /\ pc' = "idle"
    /\ rank' = 0
    /\ worldsize' = 0
    /\ conv' = 0
    /\ handed' = NoViews
    /\ err' = "none"
    /\ cleanAtStart' = FALSE
    /\ fetched' = FALSE
    /\ steps' = <<>>
    /\ probed' = <<>>

\* LandmarkShardDescriptor(data_folder, rank_worldsize): __init__ up to the
\* manifest check of download_data (the folder is made if it is absent)
Construct(rank_worldsize) ==
    /\ pc = "idle"
    /\ rank' = ParseInt(Split(rank_worldsize, ",")[1])
    /\ worldsize' = ParseInt(Split(rank_worldsize, ",")[2])
    /\ exists' = TRUE
    /\ pc' = "check"
    /\ cleanAtStart' = clean
    /\ UNCHANGED <<shardVars, data_folder, folder, manifest, conv, handed, err, saved,
                   crashed, clean, fetched, steps, probed, ext>>

\* download_data: the manifest matches, nothing else is done
CheckHit ==
    /\ pc = "check"
    /\ IsDatasetComplete(folder, manifest) = "True"
    /\ pc' = "probe"
    /\ clean' = TRUE
    /\ crashed' = "none"
    /\ UNCHANGED <<shardVars, data_folder, rank, worldsize, exists, folder, manifest, conv,
                   handed, err, saved, cleanAtStart, fetched, steps, probed, ext>>

\* download_data: the manifest is missing or differs, the refresh starts
CheckMiss ==
    /\ pc = "check"
    /\ IsDatasetComplete(folder, manifest) = "False"
    /\ pc' = "auth"
    /\ clean' = FALSE
    /\ crashed' = "none"
    /\ UNCHANGED <<shardVars, data_folder, rank, worldsize, exists, folder, manifest, conv,
                   handed, err, saved, cleanAtStart, fetched, steps, probed, ext>>

\* download_data: json.load raises on a manifest cut short
CheckError ==
    /\ pc = "check"
    /\ IsDatasetComplete(folder, manifest) = "JSONDecodeError"
    /\ pc' = "failed"
    /\ err' = "JSONDecodeError"
    /\ crashed' = "none"
    /\ UNCHANGED <<shardVars, data_folder, rank, worldsize, exists, folder, manifest, conv,
                   handed, saved, clean, cleanAtStart, fetched, steps, probed, ext>>

\* KaggleApi(), authenticate(), and the rmtree of 'data/train', which lies in
\* the data folder only when the folder is CWD/data
Authenticate ==
    /\ pc = "auth"
    /\ folder' = IF data_folder = DATA THEN [folder EXCEPT ![TrainFile] = "absent"]
                 ELSE folder
    /\ pc' = StepAfter("auth")
    /\ UNCHANGED <<shardVars, data_folder, rank, worldsize, exists, manifest, conv, handed,
                   err, saved, crashed, clean, cleanAtStart, fetched, steps,
                   probed, ext>>

\* api.competition_download_file(..., 'training.zip', path=self.data_folder)
Fetch ==
    /\ pc = "fetch"
    /\ folder' = [folder EXCEPT ![ZipFile] = "good"]
    /\ fetched' = TRUE
    /\ steps' = Append(steps, "fetch")
    /\ pc' = StepAfter("fetch")
    /\ UNCHANGED <<shardVars, data_folder, rank, worldsize, exists, manifest, conv, handed,
                   err, saved, crashed, clean, cleanAtStart, probed, ext>>

\* ZipFile(...).extractall(self.data_folder)
Extract ==
    /\ pc = "extract"
    /\ folder[ZipFile] = "good"
    /\ folder' = [folder EXCEPT ![CsvFile] = "good"]
    /\ steps' = Append(steps, "extract")
    /\ pc' = StepAfter("extract")
    /\ UNCHANGED <<shardVars, data_folder, rank, worldsize, exists, manifest, conv, handed,
                   err, saved, crashed, clean, cleanAtStart, fetched, probed, ext>>

\* os.remove(self.data_folder / 'training.zip')
RemoveZip ==
    /\ pc = "rmzip"
    /\ folder[ZipFile] # "absent"
    /\ folder' = [folder EXCEPT ![ZipFile] = "absent"]
    /\ steps' = Append(steps, "rmzip")
    /\ pc' = StepAfter("rmzip")
    /\ UNCHANGED <<shardVars, data_folder, rank, worldsize, exists, manifest, conv, handed,
                   err, saved, crashed, clean, cleanAtStart, fetched, probed, ext>>

\* the file the n-th np.save of process_data writes (n from 0): row n div 2,
\* the image first, the keypoints second
SavedByProcessData(n) == IF n % 2 = 0 THEN ImgFile(n \div 2) ELSE KpFile(n \div 2)

\* process_data('training.csv'): one np.save
ProcessData ==
    /\ pc = "convert"
    /\ folder[CsvFile] = "good"
    /\ conv < 2 * NRows
    /\ folder' = [folder EXCEPT ![SavedByProcessData(conv)] = "good"]
    /\ conv' = conv + 1
    /\ IF conv + 1 = 2 * NRows
       THEN /\ pc' = StepAfter("convert")
            /\ steps' = Append(steps, "convert")
       ELSE UNCHANGED <<pc, steps>>
    /\ UNCHANGED <<shardVars, data_folder, rank, worldsize, exists, manifest, handed, err,
                   saved, crashed, clean, cleanAtStart, fetched, probed, ext>>

\* os.remove(self.data_folder / 'training.csv')
RemoveCsv ==
    /\ pc = "rmcsv"
    /\ folder[CsvFile] # "absent"
    /\ folder' = [folder EXCEPT ![CsvFile] = "absent"]
    /\ steps' = Append(steps, "rmcsv")
    /\ pc' = StepAfter("rmcsv")
    /\ UNCHANGED <<shardVars, data_folder, rank, worldsize, exists, manifest, conv, handed,
                   err, saved, crashed, clean, cleanAtStart, fetched, probed, ext>>

\* self.save_all_md5()
SaveManifest ==
    /\ pc = "save"
    /\ manifest' = SaveAllMd5(folder, manifest)
    /\ saved' = folder
    /\ steps' = Append(steps, "save")
    /\ pc' = StepAfter("save")
    /\ clean' = (StepAfter("save") = "probe")
    /\ UNCHANGED <<shardVars, data_folder, rank, worldsize, exists, folder, conv, handed,
                   err, crashed, cleanAtStart, fetched, probed, ext>>

\* the file a refresh statement is writing, if it writes one
WrittenBy(step) ==
    CASE step = "fetch" -> {ZipFile}
      [] step = "extract" -> {CsvFile}
      [] step = "convert" -> {SavedByProcessData(conv)}
      [] OTHER -> {}

RefreshSteps == {"auth", "fetch", "extract", "rmzip", "convert", "rmcsv", "save"}

\* The process is interrupted (an exception of the data-hosting client, a
\* kill) before or inside the refresh statement it is at; inside a writing
\* statement the file it writes is left cut short.
Interrupt(inside) ==
    /\ pc \in RefreshSteps
    /\ crashed' = pc
    /\ folder' = IF inside
                 THEN [f \in Files |-> IF f \in WrittenBy(pc) THEN "other" ELSE folder[f]]
                 ELSE folder
    /\ manifest' = IF inside /\ pc = "save"
                   THEN [state |-> "partial", members |-> {}]
                   ELSE manifest
    /\ ProcessGone
    /\ UNCHANGED <<shardVars, data_folder, exists, saved, clean, ext>>

\* __init__ after download_data: ds = self.get_dataset(); sample, target =
\* ds[0]; the shapes; the assertion
Probe ==
    /\ pc = "probe"
    /\ \E ds \in GetDataset(TRAIN_TYPE) :
          IF ds.img_names = <<>>
          THEN /\ err' = "IndexError"
               /\ pc' = "failed"
               /\ UNCHANGED probed
          ELSE LET target == Load(KpPath(ds.dataset_dir, ds.img_names[1]))
               IN  IF target = "absent"
                   THEN /\ err' = "FileNotFoundError"
                        /\ pc' = "failed"
                        /\ UNCHANGED probed
                   ELSE /\ probed' = Str(Ndim(target))
                        /\ IF TargetShapeOk(Str(Ndim(target)))
                           THEN /\ pc' = "ready"
                                /\ UNCHANGED err
                           ELSE /\ pc' = "failed"
                                /\ err' = "AssertionError"
    /\ UNCHANGED <<shardVars, data_folder, rank, worldsize, exists, folder, manifest, conv,
                   handed, saved, crashed, clean, cleanAtStart, fetched, steps, ext>>

\* descriptor.get_dataset(dataset_type), called by the holder of a constructed
\* descriptor
CallGetDataset(dataset_type) ==
    /\ pc = "ready"
    /\ \E ds \in GetDataset(dataset_type) :
          handed' = [handed EXCEPT ![dataset_type] = ds]
    /\ UNCHANGED <<shardVars, data_folder, rank, worldsize, exists, folder, manifest, pc,
                   conv, err, saved, crashed, clean, cleanAtStart, fetched, steps,
                   probed, ext>>

\* the process ends: after a failed construction, or when the caller is done
Exit ==
    /\ pc \in {"ready", "failed"}
    /\ ProcessGone
    /\ UNCHANGED <<shardVars, data_folder, exists, folder, manifest, saved, crashed, clean, ext>>

\* Between runs something else writes a file of the folder ...
ExternalWrite(f, content) ==
    /\ pc = "idle"
    /\ ext < MaxExt
    /\ folder[f] # content
    /\ folder' = [folder EXCEPT ![f] = content]
    /\ exists' = TRUE
    /\ ext' = ext + 1
    /\ clean' = FALSE
    /\ crashed' = "none"
    /\ UNCHANGED <<shardVars, data_folder, rank, worldsize, manifest, pc, conv, handed, err,
                   saved, cleanAtStart, fetched, steps, probed>>

\* ... or removes one ...
ExternalRemove(f) ==
    /\ pc = "idle"
    /\ ext < MaxExt
    /\ folder[f] # "absent"
    /\ folder' = [folder EXCEPT ![f] = "absent"]
    /\ ext' = ext + 1
    /\ clean' = FALSE
    /\ crashed' = "none"
    /\ UNCHANGED <<shardVars, data_folder, rank, worldsize, exists, manifest, pc, conv,
                   handed, err, saved, cleanAtStart, fetched, steps, probed>>

\* ... or removes dataset.json
ExternalRemoveManifest ==
    /\ pc = "idle"
    /\ ext < MaxExt
    /\ manifest.state # "absent"
    /\ manifest' = NoManifest
    /\ ext' = ext + 1
    /\ clean' = FALSE
    /\ crashed' = "none"
    /\ UNCHANGED <<shardVars, data_folder, rank, worldsize, exists, folder, pc, conv, handed,
                   err, saved, cleanAtStart, fetched, steps, probed>>

Next ==
    \/ \E rw \in RankWorldsizes : Construct(rw)
    \/ CheckHit
    \/ CheckMiss
    \/ CheckError
    \/ Authenticate
    \/ Fetch
    \/ Extract
    \/ RemoveZip
    \/ ProcessData
    \/ RemoveCsv
    \/ SaveManifest
    \/ \E inside \in BOOLEAN : Interrupt(inside)
    \/ Probe
    \/ \E t \in DatasetTypes : CallGetDataset(t)
    \/ Exit
    \/ \E f \in SampleFiles \cup {TrainFile} : ExternalWrite(f, "other")
    \/ \E f \in Files : ExternalRemove(f)
    \/ ExternalRemoveManifest

\* the partition-view model leaves the descriptor untouched, and conversely
ShardIdle ==
    /\ dataset_dir = <<".">>
    /\ listing = <<>>
    /\ world = 1
    /\ shards = [r \in 1..1 |-> NoShard]
    /\ result = NoResult

Init == DescInit /\ ShardIdle

Spec == Init /\ [][Next]_vars

ShardSpecInit == ShardInit /\ DescInit /\ data_folder = DATA

SpecShard == ShardSpecInit /\ [][ShardNext]_vars

\* ------------------------------------------------- descriptor properties
Complete == IsDatasetComplete(folder, manifest)

\* C3: once save_all_md5 has persisted the manifest, is_dataset_complete
\* returns true exactly while every file under the data folder other than
\* dataset.json is as it was at the save (false after a content change, an
\* added or a removed file), and an absent dataset.json yields false, not an
\* error.
C3_IntegrityIsFunctionOfContents ==
    /\ manifest.state = "absent" => Complete = "False"
    /\ manifest.state = "ok" => Complete \in {"True", "False"}
    /\ manifest.state = "ok" => (Complete = "True" <=> folder = saved)

\* C3 witness: a manifest is in place and a sample file it tracks has been
\* overwritten since
C3_Witness ==
    /\ manifest.state = "ok"
    /\ \E f \in SampleFiles : saved[f] = "good" /\ folder[f] = "other"
    /\ Complete = "False"

\* C4: an invocation of download_data that starts after an earlier one ran to
\* completion, with no external change in between, finds the manifest
\* matching and does no fetch, extraction or conversion.
C4_SecondRunFetchesNothing ==
    cleanAtStart => (pc \notin RefreshSteps /\ ~fetched /\ steps = <<>>)

\* C4 witness: such a second invocation has returned from download_data
C4_Witness ==
    /\ cleanAtStart
    /\ pc = "probe"
    /\ manifest.state = "ok"

\* C5 (as claimed): a refresh interrupted at any step before the manifest is
\* rewritten leaves a folder for which is_dataset_complete returns false.
C5_AnyInterruptedRefreshDetected ==
    crashed \in (RefreshSteps \ {"save"}) => Complete = "False"

\* C5 (amended): a refresh interrupted while training.zip or training.csv is
\* in the data folder, which covers extraction, archive deletion, the whole
\* conversion and the time before the CSV deletion, leaves a folder for which
\* is_dataset_complete returns false: a folder left by an incomplete
\* conversion is never a cache hit.
C5_IncompleteConversionDetected ==
    /\ crashed \in {"extract", "rmzip", "convert", "rmcsv"} => Complete = "False"
    /\ (crashed \in RefreshSteps
          /\ (folder[ZipFile] # "absent" \/ folder[CsvFile] # "absent"))
       => Complete = "False"

\* C5 witness: a conversion was interrupted half-way through a row while an
\* earlier run's manifest is in place
C5_Witness ==
    /\ crashed = "convert"
    /\ manifest.state = "ok"
    /\ folder[ImgFile(0)] = "good"
    /\ folder[CsvFile] = "good"

\* C6: when the probed target is not exactly 1-dimensional the construction
\* ends in an AssertionError: no descriptor, and so no partition view, is
\* handed to a caller.
C6_NonVectorTargetFailsConstruction ==
    /\ (probed # <<>> /\ probed # <<"1">>)
          => (pc = "failed" /\ err = "AssertionError" /\ handed = NoViews)
    /\ pc = "ready" => probed = <<"1">>
    /\ (\E t \in DatasetTypes : handed[t].built) => probed = <<"1">>

\* C6 witness: a 2-dimensional target was probed
C6_Witness ==
    /\ probed = <<"2">>
    /\ err = "AssertionError"

RefreshOrder == <<"fetch", "extract", "rmzip", "convert", "rmcsv", "save">>

IsPrefix(a, b) == Len(a) <= Len(b) /\ SubSeq(b, 1, Len(a)) = a

\* C8: a refresh runs fetch, extract, delete archive, convert, delete CSV,
\* persist manifest in that order; the manifest is written only after the
\* archive and the CSV are gone, so it never has an entry for training.zip,
\* training.csv or dataset.json.
C8_RefreshOrderAndManifestKeys ==
    /\ IsPrefix(steps, RefreshOrder)
    /\ manifest.state = "ok"
          => /\ saved[ZipFile] = "absent"
             /\ saved[CsvFile] = "absent"
             /\ \A m \in manifest.members :
                   m[1] \notin {RelFile(ZipFile), RelFile(CsvFile), RelFile(ManifestFile)}

\* C8 witness: a whole refresh has run and written a manifest with entries
C8_Witness ==
    /\ steps = RefreshOrder
    /\ manifest.state = "ok"
    /\ manifest.members # {}

\* C10 (as claimed): once download_data has returned, every img_<i>.npy in
\* the data folder has its keypoints_<i>.npy beside it, whatever the folder
\* held before.
C10_EverySampleHasTarget ==
    pc \in {"probe", "ready"}
       => \A i \in Indices :
             folder[ImgFile(i)] # "absent" => folder[KpFile(i)] # "absent"

====
